---- MODULE Spec2Model ----
(***************************************************************************)
(* Christofides-style TSP heuristic (src/Christofides_TSP.cpp).            *)
(*                                                                         *)
(* Vertices are 0..n-1 as in the code.  A fixed-size vector                *)
(* (vector<T>(n, x)) is a function with domain 0..n-1; a vector that grows *)
(* by push_back is a sequence, and its 0-based element i is At(s, i).      *)
(*                                                                         *)
(* A double is a natural number of 1/Scale units: the square root of       *)
(* distEuclid is rounded down to that resolution.  Within the coordinate   *)
(* range of the model two different squared distances never round to the   *)
(* same value, so every comparison the code makes between two distances    *)
(* has the outcome it has on doubles.  numeric_limits<double>::infinity()  *)
(* is the value Infinity, compared by Less.                                *)
(***************************************************************************)
EXTENDS Integers, Sequences, FiniteSets, TLC

\* ---- bounds of the model
MaxN == 4
MaxDist == 1
MaxCoord == 1
MaxMult == 1
MaxEulerN == 3
MaxEulerMult == 2
Scale == 100

\* numeric_limits<double>::infinity(): an encoding, ordered by Less
Infinity == -1

VARIABLES pc, argc, fileOpens, stream, points, exitCode, out, len, stages,
          d, parent, adj, odd, used, i, eadj, stack, circuit, euler, tour

vars == <<pc, argc, fileOpens, stream, points, exitCode, out, len, stages,
          d, parent, adj, odd, used, i, eadj, stack, circuit, euler, tour>>

mainVars == <<argc, fileOpens, stream, points, exitCode, out, len>>

\* ---- vectors
At(s, k) == s[k + 1]

Vec(k, x) == [v \in 0..(k - 1) |-> x]

Size(f) == Cardinality(DOMAIN f)

Back(s) == s[Len(s)]

PopBack(s) == SubSeq(s, 1, Len(s) - 1)

RECURSIVE Reverse(_)
Reverse(s) == IF s = <<>> THEN <<>> ELSE Append(Reverse(Tail(s)), Head(s))

\* a < b on doubles, with Infinity above every finite value and never below itself
Less(a, b) == a # Infinity /\ (b = Infinity \/ a < b)

\* ---- distEuclid, buildDistanceMatrix
\* the integer r with r * r <= x < (r + 1) * (r + 1), by bisection of lo..hi
RECURSIVE SqrtBetween(_, _, _)
SqrtBetween(x, lo, hi) ==
    IF hi - lo <= 1 THEN lo
    ELSE LET mid == (lo + hi) \div 2
         IN  IF mid * mid <= x THEN SqrtBetween(x, mid, hi)
             ELSE SqrtBetween(x, lo, mid)

\* std::sqrt, rounded down to the model's resolution
Sqrt(x) == SqrtBetween(x * Scale * Scale, 0, x * Scale + 1)

distEuclid(a, b) ==
    LET dx == a[1] - b[1]
        dy == a[2] - b[2]
    IN  Sqrt(dx * dx + dy * dy)

buildDistanceMatrix(pts) ==
    [a \in 0..(Len(pts) - 1) |->
        [b \in 0..(Len(pts) - 1) |-> distEuclid(At(pts, a), At(pts, b))]]

\* ---- tourLength
RECURSIVE tourLengthFrom(_, _, _)
tourLengthFrom(t, dm, k) ==
    IF k + 1 < Len(t)
    THEN dm[At(t, k)][At(t, k + 1)] + tourLengthFrom(t, dm, k + 1)
    ELSE 0

\* faulty variant: the loop stops one edge early, i + 2 < tour.size()
tourLengthOpen(t, dm) == tourLengthFrom(SubSeq(t, 1, Len(t) - 1), dm, 0)

tourLength(t, dm) == tourLengthFrom(t, dm, 0)

\* ---- loadPoints
Num(k) == [kind |-> "num", val |-> k]

Word == [kind |-> "word", val |-> 0]

\* while (in >> p.x >> p.y) points.push_back(p): stops at the first record that
\* is not two numbers, or at the end of the input
RECURSIVE ReadPoints(_)
ReadPoints(toks) ==
    IF Len(toks) >= 2 /\ toks[1].kind = "num" /\ toks[2].kind = "num"
    THEN <<<<toks[1].val, toks[2].val>>>> \o ReadPoints(SubSeq(toks, 3, Len(toks)))
    ELSE <<>>

\* ---- primMST
\* faulty variant: the scan takes the first vertex outside the tree, whatever its key
RECURSIVE ScanMinFirst(_, _, _, _, _)
ScanMinFirst(key, inMST, v, best, u) ==
    IF v = Size(key) THEN u
    ELSE IF ~inMST[v] /\ u = -1
         THEN ScanMinFirst(key, inMST, v + 1, key[v], v)
         ELSE ScanMinFirst(key, inMST, v + 1, best, u)

\* the scan of lines 81-86: the first vertex outside the tree with the least key
RECURSIVE ScanMin(_, _, _, _, _)
ScanMin(key, inMST, v, best, u) ==
    IF v = Size(key) THEN u
    ELSE IF ~inMST[v] /\ Less(key[v], best)
         THEN ScanMin(key, inMST, v + 1, key[v], v)
         ELSE ScanMin(key, inMST, v + 1, best, u)

RECURSIVE PrimLoop(_, _, _, _, _)
PrimLoop(dm, iter, key, par, inMST) ==
    IF iter = Size(dm) THEN par
    ELSE LET u == ScanMin(key, inMST, 0, Infinity, -1)
             in1 == [inMST EXCEPT ![u] = TRUE]
             upd(v) == ~in1[v] /\ Less(dm[u][v], key[v])
         IN  PrimLoop(dm, iter + 1,
                      [v \in DOMAIN key |-> IF upd(v) THEN dm[u][v] ELSE key[v]],
                      [v \in DOMAIN par |-> IF upd(v) THEN u ELSE par[v]],
                      in1)

primMST(dm) ==
    PrimLoop(dm, 0,
             [v \in DOMAIN dm |-> IF v = 0 THEN 0 ELSE Infinity],
             Vec(Size(dm), -1),
             Vec(Size(dm), FALSE))

\* ---- buildAdjFromParent
\* adj[u].push_back(v); adj[v].push_back(u)
AddEdge(a, u, v) ==
    IF u = v
    THEN [a EXCEPT ![u] = Append(Append(@, v), u)]
    ELSE [a EXCEPT ![u] = Append(@, v), ![v] = Append(@, u)]

RECURSIVE AdjLoop(_, _, _)
AdjLoop(par, v, a) ==
    IF v >= Size(par) THEN a
    ELSE AdjLoop(par, v + 1, AddEdge(a, v, par[v]))

buildAdjFromParent(par) == AdjLoop(par, 1, Vec(Size(par), <<>>))

\* ---- findOddDegreeVertices
\* faulty variant: the parity test inverted
IsEven(k) == k % 2 = 0

IsOdd(k) == k % 2 = 1

RECURSIVE OddLoop(_, _)
OddLoop(a, v) ==
    IF v >= Size(a) THEN <<>>
    ELSE IF IsOdd(Len(a[v])) THEN <<v>> \o OddLoop(a, v + 1)
         ELSE OddLoop(a, v + 1)

findOddDegreeVertices(a) == OddLoop(a, 0)

\* ---- addGreedyPerfectMatching
\* faulty variant: the comparison is dist <= best, so the last of equals wins
RECURSIVE ScanBestLast(_, _, _, _, _, _, _)
ScanBestLast(od, dm, us, ii, j, best, bestj) ==
    IF j >= Len(od) THEN bestj
    ELSE IF ~us[j] /\ ~Less(best, dm[At(od, ii)][At(od, j)])
         THEN ScanBestLast(od, dm, us, ii, j + 1, dm[At(od, ii)][At(od, j)], j)
         ELSE ScanBestLast(od, dm, us, ii, j + 1, best, bestj)

\* the scan of lines 144-152: the first unmatched position after ii at least distance
RECURSIVE ScanBest(_, _, _, _, _, _, _)
ScanBest(od, dm, us, ii, j, best, bestj) ==
    IF j >= Len(od) THEN bestj
    ELSE IF ~us[j] /\ Less(dm[At(od, ii)][At(od, j)], best)
         THEN ScanBest(od, dm, us, ii, j + 1, dm[At(od, ii)][At(od, j)], j)
         ELSE ScanBest(od, dm, us, ii, j + 1, best, bestj)

\* faulty variant: the scan does not test used[j]
ClosestIgnoringUsed(od, dm, us, ii) ==
    ScanBest(od, dm, Vec(Len(od), FALSE), ii, ii + 1, Infinity, -1)

\* faulty variant: the scan starts at j = i
ClosestFromSelf(od, dm, us, ii) == ScanBest(od, dm, us, ii, ii, Infinity, -1)

ClosestUnmatched(od, dm, us, ii) == ScanBest(od, dm, us, ii, ii + 1, Infinity, -1)

\* ---- eulerianTourHierholzer
\* faulty variant: the opposite edge is not removed
RemoveNone(s, u) == s

\* faulty variant: every instance of the vertex is erased, not only the first
RemoveEvery(s, u) == SelectSeq(s, LAMBDA x : x # u)

\* faulty variant: the loop ends with one vertex left, while (stack.size() > 1)
LoopDoneEarly(st) == Len(st) <= 1

\* the negation of the loop test of line 175, while (!stack.empty())
LoopDone(st) == st = <<>>

\* find(nbrs.begin(), nbrs.end(), u), then erase if found
RECURSIVE RemoveFirst(_, _)
RemoveFirst(s, u) ==
    IF s = <<>> THEN <<>>
    ELSE IF Head(s) = u THEN Tail(s)
         ELSE <<Head(s)>> \o RemoveFirst(Tail(s), u)

\* ---- christofidesTour, lines 221-243
RECURSIVE ShortcutLoop(_, _)
ShortcutLoop(e, visited) ==
    IF e = <<>> THEN <<>>
    ELSE IF Head(e) \in visited THEN ShortcutLoop(Tail(e), visited)
         ELSE <<Head(e)>> \o ShortcutLoop(Tail(e), visited \cup {Head(e)})

\* faulty variant: no visited test, every vertex of the circuit is kept
ShortcutNoVisited(e) == e

\* faulty variant: the vertices of the circuit in index order, not in circuit order
RECURSIVE Ascending(_, _)
Ascending(vs, v) ==
    IF vs = {} THEN <<>>
    ELSE IF v \in vs THEN <<v>> \o Ascending(vs \ {v}, v + 1)
         ELSE Ascending(vs, v + 1)

ShortcutIndexOrder(e) == Ascending({e[k] : k \in DOMAIN e}, 0)

Shortcut(e) == ShortcutLoop(e, {})

\* find(tour.begin(), tour.end(), 0): the 1-based position, Len + 1 for end()
RECURSIVE FindPos(_, _, _)
FindPos(s, x, k) ==
    IF k > Len(s) THEN k
    ELSE IF s[k] = x THEN k ELSE FindPos(s, x, k + 1)

RotateToZero(t) ==
    LET it0 == FindPos(t, 0, 1)
    IN  IF it0 # 1 /\ it0 # Len(t) + 1
        THEN SubSeq(t, it0, Len(t)) \o SubSeq(t, 1, it0 - 1)
        ELSE t

CloseTour(e) == Append(RotateToZero(Shortcut(e)), 0)

\* ---- inputs
Grid == (0..MaxCoord) \X (0..MaxCoord)

RECURSIVE Encode(_)
Encode(pts) ==
    IF pts = <<>> THEN <<>>
    ELSE <<Num(pts[1][1]), Num(pts[1][2])>> \o Encode(Tail(pts))

\* what may follow the last well-formed record: nothing, a non-numeric token, a
\* single coordinate, or a non-numeric token with a well-formed record after it
Tails == {<<>>, <<Word>>, <<Num(0)>>, <<Word, Num(0), Num(0)>>}

\* the two-point scenario of the specification, (0,0) and (3,4)
ScenarioFiles == {Encode(<<<<0, 0>>, <<3, 4>>>>)}

\* a file: well-formed records, then one of the tails; or a scenario file
IsFile(toks) ==
    \/ \E k \in 0..MaxN : \E p \in [1..k -> Grid] : \E t \in Tails :
          toks = Encode(p) \o t
    \/ toks \in ScenarioFiles

\* symmetric, zero diagonal, entries 0..MaxDist
Pairs(k) == {pr \in (0..(k - 1)) \X (0..(k - 1)) : pr[1] < pr[2]}

MatrixOf(k, w) ==
    [a \in 0..(k - 1) |->
        [b \in 0..(k - 1) |->
            IF a = b THEN 0 ELSE IF a < b THEN w[<<a, b>>] ELSE w[<<b, a>>]]]

\* a symmetric adjacency list on k vertices with m[<<u, v>>] instances of edge u-v
RECURSIVE AddCopies(_, _, _, _)
AddCopies(a, u, v, c) == IF c = 0 THEN a ELSE AddCopies(AddEdge(a, u, v), u, v, c - 1)

RECURSIVE GraphLoop(_, _, _, _, _)
GraphLoop(k, m, u, v, a) ==
    IF u >= k THEN a
    ELSE IF v >= k THEN GraphLoop(k, m, u + 1, u + 2, a)
         ELSE GraphLoop(k, m, u, v + 1, AddCopies(a, u, v, m[<<u, v>>]))

GraphOf(k, m) == GraphLoop(k, m, 0, 1, Vec(k, <<>>))

\* ---- the program
Idle ==
    /\ d = <<>> /\ parent = <<>> /\ adj = <<>> /\ odd = <<>> /\ used = <<>>
    /\ i = 0 /\ eadj = <<>> /\ stack = <<>> /\ circuit = <<>> /\ euler = <<>>
    /\ tour = <<>> /\ stages = {}

\* main, started on a command line and a file
Init ==
    /\ pc = "main"
    /\ argc \in {1, 2}
    /\ fileOpens \in IF argc < 2 THEN {FALSE} ELSE BOOLEAN
    /\ IF fileOpens THEN IsFile(stream) ELSE stream = <<>>
    /\ points = <<>> /\ exitCode = -1 /\ out = "none" /\ len = 0
    /\ Idle

\* christofidesTour, called on a distance matrix
InitCore ==
    /\ pc = "primMST"
    /\ argc = 0 /\ fileOpens = FALSE /\ stream = <<>>
    /\ points = <<>> /\ exitCode = -1 /\ out = "none" /\ len = 0
    /\ \E k \in 1..MaxN : \E w \in [Pairs(k) -> 0..MaxDist] : d = MatrixOf(k, w)
    /\ parent = <<>> /\ adj = <<>> /\ odd = <<>> /\ used = <<>>
    /\ i = 0 /\ eadj = <<>> /\ stack = <<>> /\ circuit = <<>> /\ euler = <<>>
    /\ tour = <<>> /\ stages = {}

\* findOddDegreeVertices, called on an adjacency list
InitGraph ==
    /\ pc = "findOdd"
    /\ argc = 0 /\ fileOpens = FALSE /\ stream = <<>>
    /\ points = <<>> /\ exitCode = -1 /\ out = "none" /\ len = 0
    /\ \E k \in 1..MaxN : \E m \in [Pairs(k) -> 0..MaxMult] : adj = GraphOf(k, m)
    /\ d = <<>> /\ parent = <<>> /\ odd = <<>> /\ used = <<>>
    /\ i = 0 /\ eadj = <<>> /\ stack = <<>> /\ circuit = <<>> /\ euler = <<>>
    /\ tour = <<>> /\ stages = {}

\* eulerianTourHierholzer(start, g), called on an adjacency list, after line 173
InitEuler ==
    /\ pc = "eulerLoop"
    /\ argc = 0 /\ fileOpens = FALSE /\ stream = <<>>
    /\ points = <<>> /\ exitCode = -1 /\ out = "none" /\ len = 0
    /\ \E k \in 1..MaxEulerN : \E m \in [Pairs(k) -> 0..MaxEulerMult] :
          \E start \in 0..(k - 1) :
              /\ adj = GraphOf(k, m)
              /\ eadj = adj
              /\ stack = <<start>>
    /\ d = <<>> /\ parent = <<>> /\ odd = <<>> /\ used = <<>>
    /\ i = 0 /\ circuit = <<>> /\ euler = <<>>
    /\ tour = <<>> /\ stages = {"eulerianTourHierholzer"}

coreVars == <<d, parent, adj, odd, used, i, eadj, stack, circuit, euler, tour>>

\* ---- main
LoadOk(opens, toks) == opens /\ ReadPoints(toks) # <<>>

\* faulty variant: the n == 1 test is missing
IsSingleNever(k) == FALSE

IsSingle(k) == k = 1

Usage ==
    /\ pc = "main"
    /\ argc < 2
    /\ pc' = "exit" /\ out' = "usage" /\ exitCode' = 1
    /\ UNCHANGED <<argc, fileOpens, stream, points, len, stages, coreVars>>

LoadPointsFail ==
    /\ pc = "main"
    /\ argc >= 2
    /\ ~LoadOk(fileOpens, stream)
    /\ pc' = "exit" /\ out' = "error" /\ exitCode' = 1
    /\ stream' = <<>>
    /\ UNCHANGED <<argc, fileOpens, points, len, stages, coreVars>>

LoadPointsOk ==
    /\ pc = "main"
    /\ argc >= 2
    /\ LoadOk(fileOpens, stream)
    /\ points' = ReadPoints(stream)
    /\ stream' = <<>>
    /\ pc' = "loaded"
    /\ UNCHANGED <<argc, fileOpens, exitCode, out, len, stages, coreVars>>

SinglePoint ==
    /\ pc = "loaded"
    /\ IsSingle(Len(points))
    /\ pc' = "exit" /\ out' = "trivial" /\ len' = 0 /\ exitCode' = 0
    /\ UNCHANGED <<argc, fileOpens, stream, points, stages, coreVars>>

BuildDistanceMatrix ==
    /\ pc = "loaded"
    /\ ~IsSingle(Len(points))
    /\ d' = buildDistanceMatrix(points)
    /\ stages' = stages \cup {"buildDistanceMatrix"}
    /\ pc' = "primMST"
    /\ UNCHANGED <<mainVars, parent, adj, odd, used, i, eadj, stack, circuit, euler, tour>>

\* lines 324-351: the length, the printed tour, the rendering
Report ==
    /\ pc = "return"
    /\ argc >= 2
    /\ len' = tourLength(tour, d)
    /\ out' = "tour"
    /\ stages' = stages \cup {"tourLength", "writeSolutionSVG"}
    /\ exitCode' = 0
    /\ pc' = "exit"
    /\ UNCHANGED <<argc, fileOpens, stream, points, coreVars>>

\* ---- christofidesTour
PrimMST ==
    /\ pc = "primMST"
    /\ parent' = primMST(d)
    /\ stages' = stages \cup {"primMST"}
    /\ pc' = "buildAdj"
    /\ UNCHANGED <<mainVars, d, adj, odd, used, i, eadj, stack, circuit, euler, tour>>

BuildAdjFromParent ==
    /\ pc = "buildAdj"
    /\ adj' = buildAdjFromParent(parent)
    /\ stages' = stages \cup {"buildAdjFromParent"}
    /\ pc' = "findOdd"
    /\ UNCHANGED <<mainVars, d, parent, odd, used, i, eadj, stack, circuit, euler, tour>>

FindOddDegreeVertices ==
    /\ pc = "findOdd"
    /\ odd' = findOddDegreeVertices(adj)
    /\ stages' = stages \cup {"findOddDegreeVertices"}
    /\ pc' = "matching"
    /\ UNCHANGED <<mainVars, d, parent, adj, used, i, eadj, stack, circuit, euler, tour>>

\* addGreedyPerfectMatching, lines 132-135: k == 0 returns at once
MatchEnter ==
    /\ pc = "matching"
    /\ stages' = stages \cup {"addGreedyPerfectMatching"}
    /\ IF Len(odd) = 0
       THEN /\ pc' = "euler"
            /\ UNCHANGED <<used, i>>
       ELSE /\ used' = Vec(Len(odd), FALSE)
            /\ i' = 0
            /\ pc' = "matchLoop"
    /\ UNCHANGED <<mainVars, d, parent, adj, odd, eadj, stack, circuit, euler, tour>>

\* if (used[i]) continue
MatchSkip ==
    /\ pc = "matchLoop"
    /\ i < Len(odd)
    /\ used[i]
    /\ i' = i + 1
    /\ UNCHANGED <<mainVars, pc, stages, d, parent, adj, odd, used, eadj, stack, circuit, euler, tour>>

\* lines 140-163; with no partner left bestj is -1 and used[-1], odd[-1] are
\* accesses outside the vectors
MatchPair ==
    /\ pc = "matchLoop"
    /\ i < Len(odd)
    /\ ~used[i]
    /\ LET bestj == ClosestUnmatched(odd, d, used, i)
       IN  IF bestj = -1
           THEN /\ pc' = "undefined"
                /\ UNCHANGED <<used, adj, i>>
           ELSE /\ used' = [used EXCEPT ![i] = TRUE, ![bestj] = TRUE]
                /\ adj' = AddEdge(adj, At(odd, i), At(odd, bestj))
                /\ i' = i + 1
                /\ pc' = pc
    /\ UNCHANGED <<mainVars, stages, d, parent, odd, eadj, stack, circuit, euler, tour>>

MatchExit ==
    /\ pc = "matchLoop"
    /\ i = Len(odd)
    /\ pc' = "euler"
    /\ UNCHANGED <<mainVars, stages, d, parent, adj, odd, used, i, eadj, stack, circuit, euler, tour>>

\* eulerianTourHierholzer(0, adj): adj is passed by value
EulerEnter ==
    /\ pc = "euler"
    /\ eadj' = adj
    /\ stack' = <<0>>
    /\ circuit' = <<>>
    /\ stages' = stages \cup {"eulerianTourHierholzer"}
    /\ pc' = "eulerLoop"
    /\ UNCHANGED <<mainVars, d, parent, adj, odd, used, i, euler, tour>>

EulerExplore ==
    /\ pc = "eulerLoop"
    /\ ~LoopDone(stack)
    /\ eadj[Back(stack)] # <<>>
    /\ LET u == Back(stack)
           v == Back(eadj[u])
           popped == [eadj EXCEPT ![u] = PopBack(@)]
       IN  /\ eadj' = [popped EXCEPT ![v] = RemoveFirst(@, u)]
           /\ stack' = Append(stack, v)
    /\ UNCHANGED <<mainVars, pc, stages, d, parent, adj, odd, used, i, circuit, euler, tour>>

EulerBacktrack ==
    /\ pc = "eulerLoop"
    /\ ~LoopDone(stack)
    /\ eadj[Back(stack)] = <<>>
    /\ circuit' = Append(circuit, Back(stack))
    /\ stack' = PopBack(stack)
    /\ UNCHANGED <<mainVars, pc, stages, d, parent, adj, odd, used, i, eadj, euler, tour>>

EulerReturn ==
    /\ pc = "eulerLoop"
    /\ LoopDone(stack)
    /\ euler' = Reverse(circuit)
    /\ pc' = "shortcut"
    /\ UNCHANGED <<mainVars, stages, d, parent, adj, odd, used, i, eadj, stack, circuit, tour>>

ShortcutTour ==
    /\ pc = "shortcut"
    /\ tour' = CloseTour(euler)
    /\ pc' = "return"
    /\ UNCHANGED <<mainVars, stages, d, parent, adj, odd, used, i, eadj, stack, circuit, euler>>

Next ==
    \/ Usage \/ LoadPointsFail \/ LoadPointsOk \/ SinglePoint
    \/ BuildDistanceMatrix \/ Report
    \/ PrimMST \/ BuildAdjFromParent \/ FindOddDegreeVertices
    \/ MatchEnter \/ MatchSkip \/ MatchPair \/ MatchExit
    \/ EulerEnter \/ EulerExplore \/ EulerBacktrack \/ EulerReturn
    \/ ShortcutTour

NextCore ==
    \/ PrimMST \/ BuildAdjFromParent \/ FindOddDegreeVertices
    \/ MatchEnter \/ MatchSkip \/ MatchPair \/ MatchExit
    \/ EulerEnter \/ EulerExplore \/ EulerBacktrack \/ EulerReturn
    \/ ShortcutTour

Spec == Init /\ [][Next]_vars

SpecCore == InitCore /\ [][NextCore]_vars

NextGraph == FindOddDegreeVertices

SpecGraph == InitGraph /\ [][NextGraph]_vars

NextEuler == EulerExplore \/ EulerBacktrack \/ EulerReturn

\* the loop is sequential code: a step that can be taken is taken
SpecEuler == InitEuler /\ [][NextEuler]_vars /\ WF_vars(NextEuler)

\* ---- properties
Range(s) == {s[k] : k \in DOMAIN s}

Count(s, x) == Cardinality({k \in DOMAIN s : s[k] = x})

RECURSIVE SumLen(_, _)
SumLen(a, v) == IF v >= Size(a) THEN 0 ELSE Len(a[v]) + SumLen(a, v + 1)

\* the number of edge instances of a symmetric adjacency list
EdgeCount(a) == SumLen(a, 0) \div 2

\* C1: christofidesTour on n >= 2 vertices returns n+1 indices, the first and the
\* last both 0, the first n holding every vertex 0..n-1 exactly once
C1_TourWellFormed ==
    (pc = "return" /\ Size(d) >= 2) =>
        /\ Len(tour) = Size(d) + 1
        /\ tour[1] = 0
        /\ tour[Len(tour)] = 0
        /\ \A v \in DOMAIN d : Cardinality({k \in 1..Size(d) : tour[k] = v}) = 1

C1_Witness ==
    /\ pc = "return"
    /\ Size(d) >= 3
    /\ Len(euler) > Len(tour)
    /\ tour[1] = 0 /\ tour[Len(tour)] = 0

\* following parent from v reaches vertex 0 within `steps` edges
RECURSIVE ReachesRoot(_, _, _)
ReachesRoot(par, v, steps) ==
    \/ v = 0
    \/ /\ steps > 0
       /\ v \in DOMAIN par
       /\ ReachesRoot(par, par[v], steps - 1)

\* the edges (v, par[v]), v = 1..k-1, are a spanning tree of the complete graph on
\* 0..k-1: k-1 edges from which every vertex reaches vertex 0
IsSpanningTree(par, k) ==
    \A v \in 1..(k - 1) :
        /\ par[v] \in 0..(k - 1)
        /\ ReachesRoot(par, v, k)

RECURSIVE WeightFrom(_, _, _)
WeightFrom(par, dm, v) ==
    IF v >= Size(dm) THEN 0 ELSE dm[v][par[v]] + WeightFrom(par, dm, v + 1)

TreeWeight(par, dm) == WeightFrom(par, dm, 1)

\* every spanning tree on 0..k-1, k = 1..MaxN, each as the pair of k and its
\* parent mapping rooted at 0
SpanningTrees ==
    UNION {{<<k, q>> : q \in {r \in [1..(k - 1) -> 0..(k - 1)] : IsSpanningTree(r, k)}} :
              k \in 1..MaxN}

\* C2: primMST returns parent[0] = -1 and one parent in 0..n-1 for each other
\* vertex; the n-1 edges (v, parent[v]) are a spanning tree, and no spanning tree
\* of the complete graph weighs less
C2_PrimMinimal ==
    (pc = "buildAdj" /\ Size(d) >= 2) =>
        /\ DOMAIN parent = DOMAIN d
        /\ parent[0] = -1
        /\ IsSpanningTree(parent, Size(d))
        /\ \A t \in SpanningTrees :
               t[1] = Size(d) => TreeWeight(parent, d) <= TreeWeight(t[2], d)

C2_Witness ==
    /\ pc = "buildAdj"
    /\ Size(d) >= 4
    /\ IsSpanningTree(parent, Size(d))
    /\ \E t \in SpanningTrees :
           t[1] = Size(d) /\ TreeWeight(parent, d) < TreeWeight(t[2], d)
    /\ \E v \in DOMAIN parent : parent[v] > 0

\* C3: after addGreedyPerfectMatching every vertex has even degree: each
\* odd-degree vertex of the tree got exactly one more neighbour instance, appended
\* to its bag, and no even-degree vertex got any
C3_EvenAfterMatching ==
    (pc = "euler" /\ Size(d) >= 2) =>
        LET tree == buildAdjFromParent(parent)
        IN  \A v \in DOMAIN adj :
                /\ Len(adj[v]) % 2 = 0
                /\ Len(adj[v]) = Len(tree[v]) + (IF v \in Range(odd) THEN 1 ELSE 0)
                /\ SubSeq(adj[v], 1, Len(tree[v])) = tree[v]

C3_Witness ==
    /\ pc = "euler"
    /\ Len(odd) >= 4
    /\ \A v \in DOMAIN adj : Len(adj[v]) % 2 = 0

\* the number of consecutive pairs of walk w that are the undirected edge u-v
Traversals(w, u, v) ==
    Cardinality({k \in 1..(Len(w) - 1) :
        \/ w[k] = u /\ w[k + 1] = v
        \/ w[k] = v /\ w[k + 1] = u})

\* C4: eulerianTourHierholzer(0, adj) on the pipeline's multigraph returns a closed
\* walk from 0 to 0 whose consecutive pairs are, with multiplicity, exactly the
\* edge instances of the multigraph: (n-1) + number of matching pairs of them
C4_EulerUsesEveryEdgeOnce ==
    (pc = "shortcut" /\ Size(d) >= 2) =>
        /\ euler # <<>>
        /\ euler[1] = 0
        /\ euler[Len(euler)] = 0
        /\ Len(euler) - 1 = (Size(d) - 1) + (Len(odd) \div 2)
        /\ Len(euler) - 1 = EdgeCount(adj)
        /\ \A u, v \in DOMAIN adj :
               u # v => /\ Traversals(euler, u, v) = Count(adj[u], v)
                        /\ Traversals(euler, u, v) = Count(adj[v], u)
        /\ \A k \in 1..(Len(euler) - 1) : euler[k] # euler[k + 1]

C4_Witness ==
    /\ pc = "shortcut"
    /\ Size(d) >= 4
    /\ Len(odd) >= 4
    /\ \E u, v \in DOMAIN adj : u # v /\ Count(adj[u], v) = 2
    /\ Len(euler) - 1 = EdgeCount(adj)

\* symmetric, zero diagonal, triangle inequality
Metric(dm) ==
    /\ \A a, b \in DOMAIN dm : dm[a][b] = dm[b][a]
    /\ \A a \in DOMAIN dm : dm[a][a] = 0
    /\ \A a, b, c \in DOMAIN dm : dm[a][c] <= dm[a][b] + dm[b][c]

\* C5: on a metric distance matrix the tour christofidesTour returns is no longer
\* than the Eulerian circuit it was shortcut from
C5_ShortcutNoLonger ==
    (pc = "return" /\ Metric(d)) => tourLength(tour, d) <= tourLength(euler, d)

C5_Witness ==
    /\ pc = "return"
    /\ Metric(d)
    /\ Len(tour) < Len(euler)
    /\ tourLength(tour, d) < tourLength(euler, d)

\* C6: findOddDegreeVertices returns, in increasing order, exactly the vertices
\* with an odd number of neighbours, and an even number of them
C6_OddVerticesEven ==
    pc = "matching" =>
        /\ Len(odd) % 2 = 0
        /\ Range(odd) = {v \in DOMAIN adj : Len(adj[v]) % 2 = 1}
        /\ \A j, k \in DOMAIN odd : j < k => odd[j] < odd[k]

C6_Witness ==
    /\ pc = "matching"
    /\ Len(odd) >= 2
    /\ \E v \in DOMAIN adj : Len(adj[v]) = 2
    /\ \E v \in DOMAIN adj : Len(adj[v]) = 3
    /\ Range(odd) = {v \in DOMAIN adj : Len(adj[v]) % 2 = 1}

\* some record of the file does not parse as two numbers
Malformed(toks) == 2 * Len(ReadPoints(toks)) # Len(toks)

\* C7: a missing file argument, a file that cannot be opened, malformed content
\* or a file of zero points ends the program with an error and exit code 1, and
\* no pipeline stage runs
C7_BadInputRejected ==
    [][(pc = "main" /\ (\/ argc < 2
                        \/ ~fileOpens
                        \/ Malformed(stream)
                        \/ ReadPoints(stream) = <<>>))
        => (pc' = "exit" /\ out' \in {"usage", "error"} /\ exitCode' = 1
            /\ stages' = {})]_vars

\* C8: an input of exactly one point reports length 0 and exits with code 0, and
\* no pipeline stage runs
C8_SinglePointShortCircuit ==
    Len(points) = 1 =>
        /\ stages = {}
        /\ d = <<>> /\ parent = <<>> /\ adj = <<>> /\ euler = <<>> /\ tour = <<>>
        /\ pc \in {"loaded", "exit"}
        /\ pc = "exit" => (out = "trivial" /\ len = 0 /\ exitCode = 0)

C8_Witness ==
    /\ pc = "exit"
    /\ Len(points) = 1
    /\ out = "trivial"

Square == <<<<0, 0>>, <<0, 1>>, <<1, 1>>, <<1, 0>>>>

\* C9: on the unit square (0,0), (0,1), (1,1), (1,0) the spanning tree has 3 edges
\* of length 1, 2 vertices have odd degree, one matching edge is added, and the
\* tour has length 4: each of its edges is a side of the square
C9_UnitSquare ==
    (pc = "exit" /\ points = Square) =>
        /\ out = "tour" /\ exitCode = 0
        /\ \A v \in 1..3 : d[v][parent[v]] = Scale
        /\ Len(odd) = 2
        /\ EdgeCount(adj) - 3 = 1
        /\ Len(tour) = 5
        /\ \A k \in 1..4 : d[tour[k]][tour[k + 1]] = Scale
        /\ len = 4 * Scale

C9_Witness ==
    /\ pc = "exit"
    /\ points = Square
    /\ out = "tour"

\* C10: on two points the matching edge duplicates the tree edge 0-1, the Eulerian
\* circuit and the tour are 0,1,0 and the length is 2*d(0,1): 10 for (0,0), (3,4)
C10_TwoPoints ==
    (pc = "exit" /\ Len(points) = 2) =>
        /\ out = "tour" /\ exitCode = 0
        /\ parent = (0 :> -1) @@ (1 :> 0)
        /\ adj = (0 :> <<1, 1>>) @@ (1 :> <<0, 0>>)
        /\ euler = <<0, 1, 0>>
        /\ tour = <<0, 1, 0>>
        /\ len = 2 * d[0][1]
        /\ points = <<<<0, 0>>, <<3, 4>>>> => len = 10 * Scale

C10_Witness ==
    /\ pc = "exit"
    /\ points = <<<<0, 0>>, <<3, 4>>>>
    /\ len = 10 * Scale

\* the vertices joined to a vertex of S by a path of adjacency list a
RECURSIVE Reach(_, _)
Reach(a, S) ==
    LET T == S \cup UNION {Range(a[v]) : v \in S}
    IN  IF T = S THEN S ELSE Reach(a, T)

Connected(a) == Reach(a, {0}) = DOMAIN a

AllEven(a) == \A v \in DOMAIN a : Len(a[v]) % 2 = 0

\* C11: on every symmetric multigraph without self-loops and from every start
\* vertex the loop of eulerianTourHierholzer ends, with the stack empty; on a
\* connected multigraph of even degrees every bag is empty when it ends
C11_EulerTerminates ==
    /\ <>(pc = "shortcut" /\ stack = <<>>)
    /\ [](pc = "shortcut" =>
            /\ stack = <<>>
            /\ (Connected(adj) /\ AllEven(adj)) => \A v \in DOMAIN eadj : eadj[v] = <<>>)

C11_Witness ==
    /\ pc = "shortcut"
    /\ stack = <<>>
    /\ Connected(adj) /\ AllEven(adj)
    /\ EdgeCount(adj) >= 3
    /\ Len(euler) = EdgeCount(adj) + 1
    /\ \A v \in DOMAIN eadj : eadj[v] = <<>>

\* adjacency list a holds v in a[u] as often as u in a[v]
Symmetric(a) == \A u, v \in DOMAIN a : Count(a[u], v) = Count(a[v], u)

\* one iteration of the loop of lines 175-197, as the claim describes it
EulerStepAsClaimed ==
    (pc = "eulerLoop" /\ pc' = "eulerLoop") =>
        LET u == Back(stack)
        IN  IF eadj[u] # <<>>
            THEN LET v == Back(eadj[u])
                 IN  /\ v # u
                     /\ Count(eadj[v], u) >= 1
                     /\ eadj'[u] = PopBack(eadj[u])
                     /\ Len(eadj'[v]) = Len(eadj[v]) - 1
                     /\ Count(eadj'[v], u) = Count(eadj[v], u) - 1
                     /\ \A w \in DOMAIN eadj : w \notin {u, v} => eadj'[w] = eadj[w]
                     /\ stack' = Append(stack, v)
            ELSE /\ eadj' = eadj
                 /\ stack' = PopBack(stack)
                 /\ circuit' = Append(circuit, u)

\* C12: in the loop of eulerianTourHierholzer on the pipeline's multigraph the
\* adjacency is symmetric at every iteration boundary; an exploring step takes the
\* last instance v of adj[u] and removes exactly one instance of u from adj[v],
\* which is always there, and no other bag changes; a backtrack step changes no bag
C12_EulerKeepsSymmetry ==
    /\ []((pc = "eulerLoop" /\ Size(d) >= 2) => Symmetric(eadj))
    /\ [][Size(d) >= 2 => EulerStepAsClaimed]_vars

C12_Witness ==
    /\ pc = "eulerLoop"
    /\ Size(d) >= 2
    /\ Len(stack) >= 2
    /\ circuit # <<>>
    /\ \E v \in DOMAIN eadj : eadj[v] # <<>>
    /\ EdgeCount(adj) >= 4
    /\ Symmetric(eadj)

\* some edge instance of the working copy was never walked
Unconsumed(a) == \E v \in DOMAIN a : a[v] # <<>>

\* C13: eulerianTourHierholzer run on a multigraph that breaks the construction
\* invariant (disconnected, or edge instances left when the stack empties) aborts
\* and returns no circuit: a circuit is returned only with every instance consumed
C13_ViolationAborts ==
    (pc = "shortcut" /\ euler # <<>>) => ~Unconsumed(eadj)

\* one more instance of v at the end of bag a[u], bag b being a[u] after the step
OneMore(a, b, v) == b = Append(a, v)

\* one step of addGreedyPerfectMatching, lines 129-165, as the claim describes it
MatchStepAsClaimed ==
    /\ (pc = "matching" /\ pc' # pc) =>
           IF Len(odd) = 0 THEN adj' = adj /\ pc' = "euler"
           ELSE adj' = adj /\ i' = 0 /\ \A k \in DOMAIN used' : ~used'[k]
    /\ (pc = "matchLoop" /\ i' # i) => i' = i + 1
    /\ (pc = "matchLoop" /\ i' # i /\ used[i]) => adj' = adj /\ used' = used
    /\ (pc = "matchLoop" /\ pc' = pc /\ i < Len(odd) /\ ~used[i]) =>
           \E j \in 0..(Len(odd) - 1) :
               LET u == At(odd, i)
                   v == At(odd, j)
               IN  /\ j # i
                   /\ ~used[j]
                   /\ \A k \in 0..(Len(odd) - 1) :
                          (k # i /\ ~used[k]) =>
                              \/ d[u][At(odd, k)] > d[u][v]
                              \/ d[u][At(odd, k)] = d[u][v] /\ k >= j
                   /\ used' = [used EXCEPT ![i] = TRUE, ![j] = TRUE]
                   /\ u # v
                   /\ OneMore(adj[u], adj'[u], v)
                   /\ OneMore(adj[v], adj'[v], u)
                   /\ \A w \in DOMAIN adj : w \notin {u, v} => adj'[w] = adj[w]
                   /\ i' = i + 1

\* C14: addGreedyPerfectMatching walks the odd list in increasing position order;
\* every unmatched position i finds a partner (bestj is never -1), the unmatched j
\* nearest to odd[i], the smallest such j among equals; both are marked matched and
\* one edge instance is appended to each endpoint's bag; an empty list adds no edge
C14_GreedyMatchesNearest ==
    /\ [](pc # "undefined")
    /\ [][MatchStepAsClaimed]_vars

C14_Witness ==
    /\ pc = "matchLoop"
    /\ Len(odd) = 4
    /\ i = 1
    /\ used[0] /\ used[2] /\ ~used[1] /\ ~used[3]
    /\ d[At(odd, 0)][At(odd, 1)] > d[At(odd, 0)][At(odd, 2)]
    /\ Back(adj[At(odd, 0)]) = At(odd, 2)
    /\ Back(adj[At(odd, 2)]) = At(odd, 0)

====
